---- MODULE Spec2Model ----
(***************************************************************************)
(* Model of the miden-rust-demo guest programs and of the host code that   *)
(* drives them:                                                            *)
(*   - basic-wallet-tx-script  (BasicWalletTxScript::run)                  *)
(*   - basic-wallet            (MyAccount::receive_asset,                  *)
(*                              MyAccount::move_asset_to_note)             *)
(*   - p2id-note               (MyNote::run)                               *)
(*   - counter-contract        (CounterContract::get_count,                *)
(*                              CounterContract::increment_count)          *)
(*   - counter-contract-note   (IncrementCounterNote::run)                 *)
(*   - scripts/src/wallet.rs   (send_asset_to_account)                     *)
(* One execution at a time runs one script; each source line that calls    *)
(* into the environment or can fail is one step of the state machine.      *)
(***************************************************************************)
EXTENDS Integers, Naturals, Sequences, FiniteSets, TLC

\* ------------------------------------------------------------------ bounds

\* Stand-in for the field modulus p = 2^64 - 2^32 + 1: Felt arithmetic is mod Modulus.
Modulus == 7
\* Largest fungible amount a vault entry or a note entry may hold.
MaxAmount == 2
\* Longest advice entry the untrusted host stores.
MaxLen == 16
\* Most calls one free-form wallet script makes in one execution.
MaxCalls == 3

\* --------------------------------------------------- field and Word values

Felt == 0 .. (Modulus - 1)

\* Felt + Felt: addition in the field, wrapping at the modulus.
FeltAdd(a, b) == (a + b) % Modulus

\* [Felt; 4]::reverse
Reverse(w) == <<w[4], w[3], w[2], w[1]>>

\* Rpo256::hash_elements, as an ideal hash: the digest is a Word of four limbs,
\* each of which determines the hashed sequence and its own position.
Hash(s) == <<<<s, 1>>, <<s, 2>>, <<s, 3>>, <<s, 4>>>>

\* The operand-stack convention of the execution environment: the script
\* argument is pushed element by element and the last-pushed element is read
\* first, so the guest sees the host's Word reversed.
StackArg(w) == Reverse(w)

\* -------------------------------------------------------- input layout

\* Mutant: the tag read from the aux offset.
TAG_INDEX_AsAux == 1 + 1
TAG_INDEX == 1 + 0
AUX_INDEX == 1 + 1
NOTE_TYPE_INDEX == 1 + 2
EXECUTION_HINT_INDEX == 1 + 3
RECIPIENT_START == 1 + 4
RECIPIENT_END == 8
\* Mutant: the asset slice started at the recipient offset.
ASSET_START_AsRecipient == 1 + 4
ASSET_START == 1 + 8
ASSET_END == 12

\* ------------------------------------------------ host-side value domains

Faucets == {1, 2}
NoteTypes == {"Public", "Private", "Encrypted"}
ExecutionHints == {"None", "Always"}
Tags == {5}
Auxes == {0, 6}
\* Digests of the note recipients the host may name (NoteRecipient::digest).
RecipientDigests == {<<1, 2, 3, 4>>}
FungibleAssets == [faucet : Faucets, amount : 1 .. MaxAmount]

\* NoteType -> Felt
NoteTypeCode(t) == CASE t = "Public" -> 1 [] t = "Private" -> 2 [] t = "Encrypted" -> 3
\* NoteExecutionHint -> Felt
ExecutionHintCode(h) == CASE h = "None" -> 0 [] h = "Always" -> 1
\* FungibleAsset -> [Felt; 4]
AssetWord(a) == <<a.amount, 0, 0, a.faucet>>

Configs == [tag : Tags, aux : Auxes, note_type : NoteTypes, execution_hint : ExecutionHints]

\* Mutant: the aux element left out of the commitment data.
Encode_NoAux(config, recipient_digest, asset) ==
    <<config.tag, NoteTypeCode(config.note_type),
      ExecutionHintCode(config.execution_hint)>>
        \o recipient_digest \o AssetWord(asset)

\* The commitment data of send_asset_to_account.
Encode(config, recipient_digest, asset) ==
    <<config.tag, config.aux, NoteTypeCode(config.note_type),
      ExecutionHintCode(config.execution_hint)>>
        \o recipient_digest \o AssetWord(asset)

\* ------------------------------------------------------------- the state

VARIABLES
    component,   \* the component the executing account was built with
    script,      \* the script of the current execution
    pc,          \* the step the script is at
    failedAt,    \* the step at which the execution failed, or "none"
    honest,      \* whether send_asset_to_account assembled the transaction
    params,      \* the configuration, recipient and asset the host started from
    advice,      \* advice map of the transaction: digest -> elements
    arg,         \* the Word the guest's run receives
    loc,         \* local variables of the running script
    vault,       \* account vault as the execution sees it: faucet -> amount
    vault0,      \* account vault before the execution
    notes,       \* output notes of the execution, by note index + 1
    calls,       \* the calls the script has made into the account and the kernel
    count_map,   \* storage slot 0 of the counter account as the execution sees it
    count_map0,  \* storage slot 0 before the execution
    account_id,  \* id of the executing account: <<prefix, suffix>>
    note,        \* the input note a note script consumes
    host         \* the demo program driving the transactions, if one is running

vars == <<component, script, pc, failedAt, honest, params, advice, arg, loc, vault,
          vault0, notes, calls, count_map, count_map0, account_id, note, host>>

NoParams == [config |-> "none"]
NoAdvice == <<>>
NoArg == <<0, 0, 0, 0>>
NoNote == [inputs |-> <<>>, assets |-> <<>>]
NoLocals == [num_felts |-> 0, input |-> <<>>, tag |-> 0, aux |-> 0, note_type |-> 0,
             execution_hint |-> 0, recipient |-> <<>>, note_idx |-> 0, asset |-> <<>>,
             removed |-> <<>>, ret |-> "none", i |-> 0, initial_value |-> 0,
             new_value |-> 0, expected_value |-> 0, final_value |-> 0, ncalls |-> 0,
             vault_at_call |-> <<>>, notes_at_call |-> <<>>]

EmptyVault == [f \in Faucets |-> 0]
NoHost == [main |-> "none", step |-> "none", result |-> "none", mint_amount |-> 0,
           transfer_amount |-> 0, faucet |-> 0,
           note |-> [script |-> "none", inputs |-> <<>>, assets |-> <<>>],
           alice |-> EmptyVault]
\* Word::from([felt!(0), felt!(0), felt!(0), felt!(1)])
CounterKey == <<0, 0, 0, 1>>
OtherKey == <<0, 0, 0, 2>>

\* --------------------------------------------- environment: failure modes

\* A failed assertion or a failed kernel procedure stops the execution; the
\* transaction is not produced and the private view of the account is dropped.
Abort(step) ==
    /\ pc' = "aborted"
    /\ failedAt' = step
    /\ vault' = vault0
    /\ notes' = <<>>
    /\ count_map' = count_map0
    /\ UNCHANGED <<host, component, script, honest, params, advice, arg, loc, vault0,
                   calls, count_map0, account_id, note>>

\* A Rust panic enters the panic handler, which is `loop {}`.
my_panic(step) ==
    /\ pc' = "panic"
    /\ failedAt' = step
    /\ UNCHANGED <<host, component, script, honest, params, advice, arg, loc, vault,
                   vault0, notes, calls, count_map, count_map0, account_id, note>>

\* The body of the panic handler: the loop never exits.
PanicLoop ==
    /\ pc = "panic"
    /\ UNCHANGED vars

\* A step that only moves on and assigns locals.
Step(next, newloc) ==
    /\ pc' = next
    /\ loc' = newloc
    /\ UNCHANGED <<host, component, script, failedAt, honest, params, advice, arg,
                   vault, vault0, notes, calls, count_map, count_map0, account_id,
                   note>>

\* ------------------------------------------------------------ the host

\* What an untrusted host may do to the commitment data before storing it.
AlterValues == {0, 2, Modulus - 3}
PadValues == {1, 3}
Mods == {[kind |-> "none"]}
        \cup [kind : {"alter"}, pos : 1 .. 12, val : AlterValues]
        \cup [kind : {"resize"}, len : 0 .. MaxLen, pad : PadValues]
        \cup {[kind |-> "absent"]}

Apply(mod, s) ==
    CASE mod.kind = "alter" -> [s EXCEPT ![mod.pos] = mod.val]
      [] mod.kind = "resize" ->
            IF mod.len <= Len(s) THEN SubSeq(s, 1, mod.len)
            ELSE s \o [k \in 1 .. (mod.len - Len(s)) |-> mod.pad]
      [] OTHER -> s

StartTx(isHonest, p, adv, a) ==
    /\ script' = "tx"
    /\ pc' = "mapvaln"
    /\ honest' = isHonest
    /\ params' = p
    /\ advice' = adv
    /\ arg' = a
    /\ UNCHANGED <<host, component, failedAt, loc, vault, vault0, notes, calls,
                   count_map, count_map0, account_id, note>>

\* Mutant: the digest passed as the script argument without reversing it.
send_asset_to_account_NotReversed(config, recipient_digest, asset) ==
    /\ pc = "idle"
    /\ component = "basic_wallet"
    /\ LET input == Encode(config, recipient_digest, asset)
           commitment == Hash(input)
           advice_map == (commitment :> input)
           script_arg == commitment
       IN  /\ Len(input) % 4 = 0
           /\ StartTx(TRUE, [config |-> config, recipient |-> recipient_digest,
                             asset |-> asset],
                      advice_map, StackArg(script_arg))

\* send_asset_to_account: commitment data, digest, advice map, reversed script
\* argument; the transaction executes the transaction script on the sender.
send_asset_to_account(config, recipient_digest, asset) ==
    /\ pc = "idle"
    /\ component = "basic_wallet"
    /\ LET input == Encode(config, recipient_digest, asset)
           commitment == Hash(input)
           advice_map == (commitment :> input)
           script_arg == Reverse(commitment)
       IN  /\ Len(input) % 4 = 0
           /\ StartTx(TRUE, [config |-> config, recipient |-> recipient_digest,
                             asset |-> asset],
                      advice_map, StackArg(script_arg))

\* Any other host: it stores what it likes under the digest it likes.
UntrustedHost(config, recipient_digest, asset, mod, authentic) ==
    /\ pc = "idle"
    /\ component = "basic_wallet"
    /\ LET input == Encode(config, recipient_digest, asset)
           stored == Apply(mod, input)
           key == IF authentic THEN Hash(stored) ELSE Hash(input)
       IN  StartTx(FALSE, [config |-> config, recipient |-> recipient_digest,
                           asset |-> asset],
                   IF mod.kind = "absent" THEN NoAdvice ELSE (key :> stored), key)

\* The transaction a user of wallet.rs submits.
HonestTransaction ==
    /\ pc = "idle"
    /\ host.main = "none"
    /\ \E config \in Configs, r \in RecipientDigests, a \in FungibleAssets :
           send_asset_to_account(config, r, a)

\* The transaction any other host submits.
UntrustedTransaction ==
    /\ pc = "idle"
    /\ host.main = "none"
    /\ \E config \in Configs, r \in RecipientDigests, a \in FungibleAssets,
          mod \in Mods, authentic \in BOOLEAN :
           UntrustedHost(config, r, a, mod, authentic)

\* --------------------------------------------------- kernel procedures

RecognizedNoteTypeCodes == {1, 2, 3}
RecognizedExecutionHintCodes == {0, 1, 2, 3}

IsFungibleAssetWord(w) ==
    /\ Len(w) = 4
    /\ w[4] \in Faucets
    /\ w[2] = 0
    /\ w[3] = 0
    /\ w[1] <= MaxAmount

NoAssets == [f \in Faucets |-> 0]

\* Rolls the execution back after a call that the kernel rejected.
AbortCall(step, call) ==
    /\ calls' = Append(calls, call)
    /\ pc' = "aborted"
    /\ failedAt' = step
    /\ vault' = vault0
    /\ notes' = <<>>
    /\ count_map' = count_map0
    /\ UNCHANGED <<host, component, script, honest, params, advice, arg, loc, vault0,
                   count_map0, account_id, note>>

\* miden::tx::create_note: checks the metadata, appends an empty output note
\* and returns its index.
create_note(tag, aux, note_type, execution_hint, recipient, next, newloc) ==
    LET call == <<"create_note", tag, aux, note_type, execution_hint, recipient>>
    IN  IF /\ note_type \in RecognizedNoteTypeCodes
           /\ execution_hint \in RecognizedExecutionHintCodes
        THEN /\ notes' = Append(notes, [tag |-> tag, aux |-> aux, note_type |-> note_type,
                                         execution_hint |-> execution_hint,
                                         recipient |-> recipient, assets |-> NoAssets])
             /\ calls' = Append(calls, call)
             /\ pc' = next
             /\ loc' = [newloc EXCEPT !.note_idx = Len(notes)]
             /\ UNCHANGED <<host, component, script, failedAt, honest, params, advice,
                            arg, vault, vault0, count_map, count_map0, account_id,
                            note>>
        ELSE AbortCall("create_note", call)

\* miden::account::remove_asset: takes the asset out of the vault and returns it.
remove_asset(asset, next) ==
    LET call == <<"remove_asset", asset>>
    IN  IF /\ IsFungibleAssetWord(asset)
           /\ vault[asset[4]] >= asset[1]
        THEN /\ vault' = [vault EXCEPT ![asset[4]] = @ - asset[1]]
             /\ calls' = Append(calls, call)
             /\ pc' = next
             /\ loc' = [loc EXCEPT !.removed = asset]
             /\ UNCHANGED <<host, component, script, failedAt, honest, params, advice,
                            arg, vault0, notes, count_map, count_map0, account_id,
                            note>>
        ELSE AbortCall("remove_asset", call)

\* miden::tx::add_asset_to_note: attaches the asset to the output note note_idx.
add_asset_to_note(asset, note_idx, next) ==
    LET call == <<"add_asset_to_note", asset, note_idx>>
    IN  IF /\ IsFungibleAssetWord(asset)
           /\ note_idx + 1 \in 1 .. Len(notes)
           /\ notes[note_idx + 1].assets[asset[4]] + asset[1] <= MaxAmount
        THEN /\ notes' = [notes EXCEPT ![note_idx + 1].assets[asset[4]] = @ + asset[1]]
             /\ calls' = Append(calls, call)
             /\ pc' = next
             /\ UNCHANGED <<host, component, script, failedAt, honest, params, advice,
                            arg, loc, vault, vault0, count_map, count_map0, account_id,
                            note>>
        ELSE AbortCall("add_asset_to_note", call)

\* miden::account::add_asset: merges the asset into the vault.
add_asset(asset, next, newloc) ==
    LET call == <<"add_asset", asset>>
    IN  IF /\ IsFungibleAssetWord(asset)
           /\ vault[asset[4]] + asset[1] <= MaxAmount
        THEN /\ vault' = [vault EXCEPT ![asset[4]] = @ + asset[1]]
             /\ calls' = Append(calls, call)
             /\ pc' = next
             /\ loc' = newloc
             /\ UNCHANGED <<host, component, script, failedAt, honest, params, advice,
                            arg, vault0, notes, count_map, count_map0, account_id,
                            note>>
        ELSE AbortCall("add_asset", call)

\* Enters a procedure of the account component: records the call.
Call(call, next, newloc) ==
    /\ calls' = Append(calls, call)
    /\ pc' = next
    /\ loc' = newloc
    /\ UNCHANGED <<host, component, script, failedAt, honest, params, advice, arg,
                   vault, vault0, notes, count_map, count_map0, account_id, note>>

\* ------------------------------------------- basic-wallet-tx-script: run

\* Mutant: an absent entry read as an entry of length 0.
run_mapvaln_AbsentAsEmpty ==
    /\ script = "tx" /\ pc = "mapvaln"
    /\ Step("align", [loc EXCEPT !.num_felts =
                         IF arg \in DOMAIN advice THEN Len(advice[arg]) ELSE 0])

\* let num_felts = adv_push_mapvaln(arg.clone());
run_mapvaln ==
    /\ script = "tx" /\ pc = "mapvaln"
    /\ IF arg \in DOMAIN advice
       THEN Step("align", [loc EXCEPT !.num_felts = Len(advice[arg])])
       ELSE Abort("mapvaln")

\* Mutant: the assertion taken modulo 2.
run_align_Mod2 ==
    /\ script = "tx" /\ pc = "align"
    /\ IF loc.num_felts % 2 = 0
       THEN Step("load", loc)
       ELSE Abort("align")

\* Mutant: only an entry of exactly 12 elements accepted.
run_align_Exactly12 ==
    /\ script = "tx" /\ pc = "align"
    /\ IF loc.num_felts = 12
       THEN Step("load", loc)
       ELSE Abort("align")

\* assert_eq(Felt::from_u32((num_felts_u64 % 4) as u32), felt!(0));
run_align ==
    /\ script = "tx" /\ pc = "align"
    /\ IF loc.num_felts % 4 = 0
       THEN Step("load", loc)
       ELSE Abort("align")

\* adv_load_preimage: num_words words of the entry, their hash checked
\* against the commitment.
adv_load_preimage(num_words, commitment) ==
    LET loaded == SubSeq(advice[commitment], 1, 4 * num_words)
    IN  IF Hash(loaded) = commitment
        THEN Step("decode", [loc EXCEPT !.input = loaded])
        ELSE Abort("load")

\* Mutant: the entry read from the advice map without the verified load.
run_load_Unverified ==
    /\ script = "tx" /\ pc = "load"
    /\ Step("decode", [loc EXCEPT !.input = advice[arg]])

\* Mutant: the preimage load takes the entry out of the advice map.
run_load_Consuming ==
    /\ script = "tx" /\ pc = "load"
    /\ IF Hash(SubSeq(advice[arg], 1, 4 * (loc.num_felts \div 4))) = arg
       THEN /\ pc' = "decode"
            /\ loc' = [loc EXCEPT !.input =
                          SubSeq(advice[arg], 1, 4 * (loc.num_felts \div 4))]
            /\ advice' = NoAdvice
            /\ UNCHANGED <<host, component, script, failedAt, honest, params, arg,
                           vault, vault0, notes, calls, count_map, count_map0,
                           account_id, note>>
       ELSE Abort("load")

\* let num_words = ...(num_felts_u64 / 4); let commitment = arg;
\* let input = adv_load_preimage(num_words, commitment);
run_load ==
    /\ script = "tx" /\ pc = "load"
    /\ LET num_words == loc.num_felts \div 4
           commitment == arg
       IN  adv_load_preimage(num_words, commitment)

\* let tag = input[TAG_INDEX]; ... let execution_hint = input[EXECUTION_HINT_INDEX];
run_decode ==
    /\ script = "tx" /\ pc = "decode"
    /\ IF {TAG_INDEX, AUX_INDEX, NOTE_TYPE_INDEX, EXECUTION_HINT_INDEX}
             \subseteq DOMAIN loc.input
       THEN Step("recipient", [loc EXCEPT !.tag = loc.input[TAG_INDEX],
                                           !.aux = loc.input[AUX_INDEX],
                                           !.note_type = loc.input[NOTE_TYPE_INDEX],
                                           !.execution_hint =
                                               loc.input[EXECUTION_HINT_INDEX]])
       ELSE my_panic("decode")

\* let recipient: [Felt; 4] = input[RECIPIENT_START..RECIPIENT_END].try_into().unwrap();
run_recipient ==
    /\ script = "tx" /\ pc = "recipient"
    /\ IF RECIPIENT_END <= Len(loc.input) /\ RECIPIENT_END - RECIPIENT_START + 1 = 4
       THEN Step("create_note",
                 [loc EXCEPT !.recipient =
                      SubSeq(loc.input, RECIPIENT_START, RECIPIENT_END)])
       ELSE my_panic("recipient")

\* let note_idx = miden::tx::create_note(tag.into(), aux, note_type.into(),
\*                                       execution_hint, recipient.into());
run_create_note ==
    /\ script = "tx" /\ pc = "create_note"
    /\ create_note(loc.tag, loc.aux, loc.note_type, loc.execution_hint, loc.recipient,
                   "asset", loc)

\* Mutant: an asset slice that is out of range read as the zero Word.
run_asset_ZeroFilled ==
    /\ script = "tx" /\ pc = "asset"
    /\ Step("move_asset_to_note",
            [loc EXCEPT !.asset = IF ASSET_END <= Len(loc.input)
                                  THEN SubSeq(loc.input, ASSET_START, ASSET_END)
                                  ELSE <<0, 0, 0, 0>>])

\* let asset: [Felt; 4] = input[ASSET_START..ASSET_END].try_into().unwrap();
run_asset ==
    /\ script = "tx" /\ pc = "asset"
    /\ IF ASSET_END <= Len(loc.input) /\ ASSET_END - ASSET_START + 1 = 4
       THEN Step("move_asset_to_note",
                 [loc EXCEPT !.asset = SubSeq(loc.input, ASSET_START, ASSET_END)])
       ELSE my_panic("asset")

\* basic_wallet::move_asset_to_note(asset.into(), note_idx);
run_move_asset_to_note ==
    /\ script = "tx" /\ pc = "move_asset_to_note"
    /\ Call(<<"move_asset_to_note", loc.asset, loc.note_idx>>, "remove_asset",
            [loc EXCEPT !.ret = "done", !.vault_at_call = vault, !.notes_at_call = notes])

\* ------------------------------------------------ basic-wallet: MyAccount

\* Mutant: the asset attached without being removed from the vault.
move_asset_to_note_remove_Skipped ==
    /\ pc = "remove_asset"
    /\ Step("add_asset_to_note", [loc EXCEPT !.removed = loc.asset])

\* Mutant: the first line attaches the asset to the note instead of removing
\* it from the vault.
move_asset_to_note_remove_AttachFirst ==
    /\ pc = "remove_asset"
    /\ add_asset_to_note(loc.asset, loc.note_idx, "add_asset_to_note")

\* Mutant: the amount taken from the vault without the vault holding it.
move_asset_to_note_remove_Unchecked ==
    /\ pc = "remove_asset"
    /\ IF IsFungibleAssetWord(loc.asset)
       THEN /\ vault' = [vault EXCEPT ![loc.asset[4]] = @ - loc.asset[1]]
            /\ calls' = Append(calls, <<"remove_asset", loc.asset>>)
            /\ pc' = "add_asset_to_note"
            /\ loc' = [loc EXCEPT !.removed = loc.asset]
            /\ UNCHANGED <<host, component, script, failedAt, honest, params, advice,
                           arg, vault0, notes, count_map, count_map0, account_id, note>>
       ELSE AbortCall("remove_asset", <<"remove_asset", loc.asset>>)

\* move_asset_to_note, first line: let asset = miden::account::remove_asset(asset);
move_asset_to_note_remove ==
    /\ pc = "remove_asset"
    /\ remove_asset(loc.asset, "add_asset_to_note")

\* Mutant: the removed asset dropped instead of attached.
move_asset_to_note_add_Skipped ==
    /\ pc = "add_asset_to_note"
    /\ Step(loc.ret, loc)

\* move_asset_to_note, second line: miden::tx::add_asset_to_note(asset, note_idx);
move_asset_to_note_add ==
    /\ pc = "add_asset_to_note"
    /\ add_asset_to_note(loc.removed, loc.note_idx, loc.ret)

\* receive_asset: miden::account::add_asset(asset);
receive_asset ==
    /\ pc = "add_asset"
    /\ add_asset(loc.asset, loc.ret, loc)

\* Any transaction script may call the procedures the wallet component exports.
AssetWords == {AssetWord(a) : a \in FungibleAssets}
NoteIndexes == 0 .. 1

StartWalletCalls ==
    /\ pc = "idle"
    /\ host.main = "none"
    /\ component = "basic_wallet"
    /\ script' = "wallet_calls"
    /\ pc' = "wallet_calls"
    /\ UNCHANGED <<host, component, failedAt, honest, params, advice, arg, loc, vault,
                   vault0, notes, calls, count_map, count_map0, account_id, note>>

CallReceiveAsset(asset) ==
    /\ script = "wallet_calls" /\ pc = "wallet_calls"
    /\ loc.ncalls < MaxCalls
    /\ Call(<<"receive_asset", asset>>, "add_asset",
            [loc EXCEPT !.asset = asset, !.ret = "wallet_calls", !.ncalls = @ + 1])

CallMoveAssetToNote(asset, note_idx) ==
    /\ script = "wallet_calls" /\ pc = "wallet_calls"
    /\ loc.ncalls < MaxCalls
    /\ Call(<<"move_asset_to_note", asset, note_idx>>, "remove_asset",
            [loc EXCEPT !.asset = asset, !.note_idx = note_idx, !.ret = "wallet_calls",
                        !.ncalls = @ + 1, !.vault_at_call = vault,
                        !.notes_at_call = notes])

CallCreateNote(config, recipient_digest) ==
    /\ script = "wallet_calls" /\ pc = "wallet_calls"
    /\ loc.ncalls < MaxCalls
    /\ create_note(config.tag, config.aux, NoteTypeCode(config.note_type),
                   ExecutionHintCode(config.execution_hint), recipient_digest,
                   "wallet_calls", [loc EXCEPT !.ncalls = @ + 1])

\* The note metadata the free-form script uses: the default configuration.
WalletCallConfigs ==
    {c \in Configs : c.note_type = "Public" /\ c.execution_hint = "Always" /\ c.aux = 0}

\* One call of the free-form script into the wallet component or the kernel.
WalletCall ==
    /\ pc = "wallet_calls"
    /\ \/ \E w \in AssetWords : CallReceiveAsset(w)
       \/ \E w \in AssetWords, idx \in NoteIndexes : CallMoveAssetToNote(w, idx)
       \/ \E config \in WalletCallConfigs, r \in RecipientDigests :
              CallCreateNote(config, r)

FinishWalletCalls ==
    /\ script = "wallet_calls" /\ pc = "wallet_calls"
    /\ Step("done", loc)

\* ------------------------------------------------------ p2id-note: MyNote

NoteInputSeqs ==
    {<<>>} \cup {<<a>> : a \in 1 .. 2} \cup {<<a, b>> : a, b \in 1 .. 2}
        \cup {<<a, b, 0>> : a, b \in 1 .. 2}

NoteAssetSeqs ==
    {<<>>} \cup {<<w>> : w \in AssetWords}
        \cup {s \in AssetWords \X AssetWords : s[1][4] # s[2][4]}

\* The account consumes an input note whose script is the p2id note script.
StartP2id(inputs, assets) ==
    /\ pc = "idle"
    /\ component = "basic_wallet"
    /\ script' = "p2id"
    /\ pc' = "get_inputs"
    /\ note' = [inputs |-> inputs, assets |-> assets]
    /\ UNCHANGED <<host, component, failedAt, honest, params, advice, arg, loc, vault,
                   vault0, notes, calls, count_map, count_map0, account_id>>

ConsumeP2id ==
    /\ pc = "idle"
    /\ host.main = "none"
    /\ \E inputs \in NoteInputSeqs, assets \in NoteAssetSeqs : StartP2id(inputs, assets)

\* Mutant: the reads of the inputs never fail.
p2id_inputs_Unchecked ==
    /\ script = "p2id" /\ pc = "get_inputs"
    /\ Step("assert_prefix", loc)

\* let inputs = miden::note::get_inputs();
\* let target_account_id_prefix = inputs[0]; let target_account_id_suffix = inputs[1];
p2id_inputs ==
    /\ script = "p2id" /\ pc = "get_inputs"
    /\ IF {1, 2} \subseteq DOMAIN note.inputs
       THEN Step("assert_prefix", loc)
       ELSE my_panic("get_inputs")

\* Mutant: the prefix comparison left out.
p2id_assert_prefix_Unchecked ==
    /\ script = "p2id" /\ pc = "assert_prefix"
    /\ Step("assert_suffix", loc)

\* let account_id = miden::account::get_id();
\* assert_eq(account_id.prefix, target_account_id_prefix);
p2id_assert_prefix ==
    /\ script = "p2id" /\ pc = "assert_prefix"
    /\ IF account_id[1] = note.inputs[1]
       THEN Step("assert_suffix", loc)
       ELSE Abort("assert_prefix")

\* Mutant: the suffix comparison left out.
p2id_assert_suffix_Unchecked ==
    /\ script = "p2id" /\ pc = "assert_suffix"
    /\ Step("for_asset", [loc EXCEPT !.i = 0])

\* assert_eq(account_id.suffix, target_account_id_suffix);
p2id_assert_suffix ==
    /\ script = "p2id" /\ pc = "assert_suffix"
    /\ IF account_id[2] = note.inputs[2]
       THEN Step("for_asset", [loc EXCEPT !.i = 0])
       ELSE Abort("assert_suffix")

\* Mutant: the loop stops after the first asset.
p2id_for_asset_FirstOnly ==
    /\ script = "p2id" /\ pc = "for_asset"
    /\ IF loc.i < Len(note.assets) /\ loc.i < 1
       THEN Call(<<"receive_asset", note.assets[loc.i + 1]>>, "add_asset",
                 [loc EXCEPT !.asset = note.assets[loc.i + 1], !.i = @ + 1,
                             !.ret = "for_asset"])
       ELSE Step("done", loc)

\* let assets = miden::note::get_assets(); for asset in assets { receive_asset(asset); }
p2id_for_asset ==
    /\ script = "p2id" /\ pc = "for_asset"
    /\ IF loc.i < Len(note.assets)
       THEN Call(<<"receive_asset", note.assets[loc.i + 1]>>, "add_asset",
                 [loc EXCEPT !.asset = note.assets[loc.i + 1], !.i = @ + 1,
                             !.ret = "for_asset"])
       ELSE Step("done", loc)

\* ------------------------------------- counter-contract: CounterContract

\* StorageMap::get: the value under the key, zero when the key is absent.
StorageMapGet(map, key) == IF key \in DOMAIN map THEN map[key] ELSE 0

\* StorageMap::set
StorageMapSet(map, key, value) ==
    [k \in DOMAIN map \cup {key} |-> IF k = key THEN value ELSE map[k]]

\* get_count: contract.count_map.get(&key)
get_count == StorageMapGet(count_map, CounterKey)

\* Mutant: the sum not reduced modulo the field modulus.
increment_count_new_value_NoWrap(current_value) == current_value + 1

\* increment_count: let new_value = current_value + felt!(1);
increment_count_new_value(current_value) == FeltAdd(current_value, 1)

\* increment_count: read, add one, write back, return the new value.
increment_count(next) ==
    LET current_value == StorageMapGet(count_map, CounterKey)
        new_value == increment_count_new_value(current_value)
    IN  /\ count_map' = StorageMapSet(count_map, CounterKey, new_value)
        /\ calls' = Append(calls, <<"increment_count", new_value>>)
        /\ loc' = [loc EXCEPT !.new_value = new_value]
        /\ pc' = next
        /\ UNCHANGED <<host, component, script, failedAt, honest, params, advice, arg,
                       vault, vault0, notes, count_map0, account_id, note>>

\* ------------------------- counter-contract-note: IncrementCounterNote

\* The counter account consumes an input note whose script is the counter note.
StartCounterNote ==
    /\ pc = "idle"
    /\ host.main = "none"
    /\ component = "counter_contract"
    /\ script' = "counter_note"
    /\ pc' = "initial_value"
    /\ UNCHANGED <<host, component, failedAt, honest, params, advice, arg, loc, vault,
                   vault0, notes, calls, count_map, count_map0, account_id, note>>

\* let initial_value = counter::get_count();
counter_initial_value ==
    /\ script = "counter_note" /\ pc = "initial_value"
    /\ Call(<<"get_count", get_count>>, "increment_count",
            [loc EXCEPT !.initial_value = get_count])

\* counter::increment_count();
counter_increment_count ==
    /\ script = "counter_note" /\ pc = "increment_count"
    /\ increment_count("expected_value")

\* Mutant: the expected value computed without the wrap at the modulus.
counter_expected_value_NoWrap ==
    /\ script = "counter_note" /\ pc = "expected_value"
    /\ Step("final_value", [loc EXCEPT !.expected_value = loc.initial_value + 1])

\* let expected_value = initial_value + Felt::from_u32(1);
counter_expected_value ==
    /\ script = "counter_note" /\ pc = "expected_value"
    /\ Step("final_value", [loc EXCEPT !.expected_value = FeltAdd(loc.initial_value, 1)])

\* let final_value = counter::get_count();
counter_final_value ==
    /\ script = "counter_note" /\ pc = "final_value"
    /\ Call(<<"get_count", get_count>>, "assert_final",
            [loc EXCEPT !.final_value = get_count])

\* assert_eq(final_value, expected_value);
counter_assert_final ==
    /\ script = "counter_note" /\ pc = "assert_final"
    /\ IF loc.final_value = loc.expected_value
       THEN Step("done", loc)
       ELSE Abort("assert_final")

\* Any script may call the procedures the counter component exports.
StartCounterCalls ==
    /\ pc = "idle"
    /\ host.main = "none"
    /\ component = "counter_contract"
    /\ script' = "counter_calls"
    /\ pc' = "counter_calls"
    /\ UNCHANGED <<host, component, failedAt, honest, params, advice, arg, loc, vault,
                   vault0, notes, calls, count_map, count_map0, account_id, note>>

\* Mutant: a get_count that stores the default 0 under a key it did not find.
CallGetCount_Writing ==
    /\ script = "counter_calls" /\ pc = "counter_calls"
    /\ loc.ncalls < MaxCalls
    /\ calls' = Append(calls, <<"get_count", get_count>>)
    /\ count_map' = StorageMapSet(count_map, CounterKey, get_count)
    /\ loc' = [loc EXCEPT !.ncalls = @ + 1]
    /\ UNCHANGED <<host, component, script, pc, failedAt, honest, params, advice, arg,
                   vault, vault0, notes, count_map0, account_id, note>>

CallGetCount ==
    /\ script = "counter_calls" /\ pc = "counter_calls"
    /\ loc.ncalls < MaxCalls
    /\ Call(<<"get_count", get_count>>, "counter_calls", [loc EXCEPT !.ncalls = @ + 1])

CallIncrementCount ==
    /\ script = "counter_calls" /\ pc = "counter_calls"
    /\ loc.ncalls < MaxCalls
    /\ Call(<<"call", "increment_count">>, "call_increment_count",
            [loc EXCEPT !.ncalls = @ + 1])

CallIncrementCountBody ==
    /\ script = "counter_calls" /\ pc = "call_increment_count"
    /\ increment_count("counter_calls")

FinishCounterCalls ==
    /\ script = "counter_calls" /\ pc = "counter_calls"
    /\ Step("done", loc)

\* ----------------------------------------------- scripts: helpers.rs

\* create_note_from_package: the package is not used; the note's script is
\* compiled from "begin push.1 end".
create_note_from_package(package, inputs, assets) ==
    [script |-> "push1", inputs |-> inputs, assets |-> assets]

\* The first step of each note script.
NoteScriptEntry(s) ==
    CASE s = "p2id" -> "get_inputs"
      [] s = "counter_note" -> "initial_value"
      [] OTHER -> "push1"

\* A transaction in which the account (id, v) consumes the note n: the note's
\* script runs against the account.
ConsumeNote(n, id, v) ==
    /\ script' = n.script
    /\ pc' = NoteScriptEntry(n.script)
    /\ note' = [inputs |-> n.inputs, assets |-> n.assets]
    /\ account_id' = id
    /\ vault0' = v
    /\ vault' = v
    /\ UNCHANGED <<host, component, failedAt, honest, params, advice, arg, loc, notes,
                   calls, count_map, count_map0>>

\* The script "begin push.1 end": it calls no procedure of the account. Whether
\* the kernel accepts an execution that ends this way is the kernel's decision.
note_push1 ==
    /\ script = "push1" /\ pc = "push1"
    /\ \/ Step("done", loc)
       \/ Abort("push1")

\* ------------------------------------------------ scripts: wallet.rs main

AliceId == <<1, 2>>
BobId == <<2, 1>>

\* Accounts are created; the demo mints mint_amount and later sends
\* transfer_amount of it.
StartWalletMain ==
    /\ pc = "idle"
    /\ host.main = "none"
    /\ component = "basic_wallet"
    /\ vault0 = EmptyVault
    /\ account_id = AliceId
    /\ \E f \in Faucets, M \in 1 .. MaxAmount :
       \E T \in 1 .. M :
          host' = [NoHost EXCEPT !.main = "wallet", !.step = "mint", !.faucet = f,
                                 !.mint_amount = M, !.transfer_amount = T]
    /\ UNCHANGED <<component, script, pc, failedAt, honest, params, advice, arg, loc,
                   vault, vault0, notes, calls, count_map, count_map0, account_id,
                   note>>

\* A step of main that runs on the host only.
HostStep(newhost) ==
    /\ host' = newhost
    /\ UNCHANGED <<component, script, pc, failedAt, honest, params, advice, arg, loc,
                   vault, vault0, notes, calls, count_map, count_map0, account_id,
                   note>>

\* main of wallet.rs, from the mint to the last assertion. A transaction that
\* fails makes the unwrap() on its result panic, and so does a failed assertion.
wallet_main ==
    /\ pc = "idle"
    /\ host.main = "wallet"
    /\ LET minted == [faucet |-> host.faucet, amount |-> host.mint_amount]
           sent == [faucet |-> host.faucet, amount |-> host.transfer_amount]
       IN
       \/ /\ host.step = "mint"
          /\ HostStep([host EXCEPT
                 !.step = "consume_mint", !.result = "none",
                 !.note = create_note_from_package("p2id-note", AliceId,
                                                   <<AssetWord(minted)>>)])
       \/ /\ host.step = "consume_mint" /\ host.result = "none"
          /\ ConsumeNote(host.note, AliceId, vault0)
       \/ /\ host.step = "consume_mint" /\ host.result # "none"
          /\ IF host.result = "ok" /\ vault0[host.faucet] = host.mint_amount
             THEN HostStep([host EXCEPT
                      !.step = "send", !.result = "none",
                      !.note = create_note_from_package("p2id-note", BobId,
                                                        <<AssetWord(sent)>>)])
             ELSE HostStep([host EXCEPT !.step = "panicked"])
       \/ /\ host.step = "send" /\ host.result = "none"
          /\ \E config \in WalletCallConfigs, r \in RecipientDigests :
                send_asset_to_account(config, r, sent)
       \/ /\ host.step = "send" /\ host.result # "none"
          /\ IF host.result = "ok"
             THEN HostStep([host EXCEPT !.step = "consume_bob", !.result = "none",
                                        !.alice = vault0])
             ELSE HostStep([host EXCEPT !.step = "panicked"])
       \/ /\ host.step = "consume_bob" /\ host.result = "none"
          /\ ConsumeNote(host.note, BobId, EmptyVault)
       \/ /\ host.step = "consume_bob" /\ host.result # "none"
          /\ IF /\ host.result = "ok"
                /\ vault0[host.faucet] = host.transfer_amount
                /\ host.alice[host.faucet] = host.mint_amount - host.transfer_amount
             THEN HostStep([host EXCEPT !.step = "exit"])
             ELSE HostStep([host EXCEPT !.step = "panicked"])

\* -------------------------------------------------- scripts: main.rs main

\* The counter account is created with the value 1 under the counter key, and
\* assert_counter_storage finds it there.
StartCounterMain ==
    /\ pc = "idle"
    /\ host.main = "none"
    /\ component = "counter_contract"
    /\ count_map0 = (CounterKey :> 1)
    /\ HostStep([NoHost EXCEPT !.main = "counter", !.step = "emit"])

\* main of main.rs: the transaction that emits the counter note, the one that
\* consumes it, and assert_counter_storage with the expected value 2.
counter_main ==
    /\ pc = "idle"
    /\ host.main = "counter"
    /\ \/ /\ host.step = "emit"
          /\ HostStep([host EXCEPT
                 !.step = "consume", !.result = "none",
                 !.note = create_note_from_package("counter-contract-note",
                                                   <<>>, <<>>)])
       \/ /\ host.step = "consume" /\ host.result = "none"
          /\ ConsumeNote(host.note, account_id, vault0)
       \/ /\ host.step = "consume" /\ host.result # "none"
          /\ IF host.result = "ok" /\ StorageMapGet(count_map0, CounterKey) = 2
             THEN HostStep([host EXCEPT !.step = "exit"])
             ELSE HostStep([host EXCEPT !.step = "panicked"])

\* ------------------------------------------------- end of an execution

\* A completed execution: the transaction is produced and the account takes
\* the state the execution left.
Commit ==
    /\ pc = "done"
    /\ host' = IF host.main = "none" THEN host ELSE [host EXCEPT !.result = "ok"]
    /\ pc' = "idle"
    /\ script' = "none"
    /\ vault0' = vault
    /\ count_map0' = count_map
    /\ failedAt' = "none"
    /\ honest' = FALSE
    /\ params' = NoParams
    /\ advice' = NoAdvice
    /\ arg' = NoArg
    /\ loc' = NoLocals
    /\ notes' = <<>>
    /\ calls' = <<>>
    /\ note' = NoNote
    /\ UNCHANGED <<component, vault, count_map, account_id>>

\* A failed execution leaves no transaction; the host may start another one.
Discard ==
    /\ pc = "aborted"
    /\ host' = IF host.main = "none" THEN host ELSE [host EXCEPT !.result = "err"]
    /\ pc' = "idle"
    /\ script' = "none"
    /\ failedAt' = "none"
    /\ honest' = FALSE
    /\ params' = NoParams
    /\ advice' = NoAdvice
    /\ arg' = NoArg
    /\ loc' = NoLocals
    /\ notes' = <<>>
    /\ calls' = <<>>
    /\ note' = NoNote
    /\ UNCHANGED <<component, vault, vault0, count_map, count_map0, account_id>>

\* ------------------------------------------------------ specification

NoStorage == [k \in {} |-> 0]
CounterStorages ==
    {NoStorage} \cup {(CounterKey :> v) : v \in Felt}
        \cup {(CounterKey :> v) @@ (OtherKey :> 3) : v \in Felt}

Init ==
    /\ component \in {"basic_wallet", "counter_contract"}
    /\ script = "none"
    /\ pc = "idle"
    /\ failedAt = "none"
    /\ honest = FALSE
    /\ params = NoParams
    /\ advice = NoAdvice
    /\ arg = NoArg
    /\ loc = NoLocals
    /\ vault0 \in IF component = "basic_wallet" THEN [Faucets -> 0 .. MaxAmount]
                  ELSE {EmptyVault}
    /\ vault = vault0
    /\ notes = <<>>
    /\ calls = <<>>
    /\ count_map0 \in IF component = "counter_contract" THEN CounterStorages
                      ELSE {NoStorage}
    /\ count_map = count_map0
    /\ account_id = <<1, 2>>
    /\ note = NoNote
    /\ host = NoHost

Next ==
    \/ HonestTransaction
    \/ UntrustedTransaction
    \/ run_mapvaln
    \/ run_align
    \/ run_load
    \/ run_decode
    \/ run_recipient
    \/ run_create_note
    \/ run_asset
    \/ run_move_asset_to_note
    \/ move_asset_to_note_remove
    \/ move_asset_to_note_add
    \/ receive_asset
    \/ StartWalletCalls
    \/ WalletCall
    \/ FinishWalletCalls
    \/ ConsumeP2id
    \/ p2id_inputs
    \/ p2id_assert_prefix
    \/ p2id_assert_suffix
    \/ p2id_for_asset
    \/ StartCounterNote
    \/ counter_initial_value
    \/ counter_increment_count
    \/ counter_expected_value
    \/ counter_final_value
    \/ counter_assert_final
    \/ StartCounterCalls
    \/ CallGetCount
    \/ CallIncrementCount
    \/ CallIncrementCountBody
    \/ FinishCounterCalls
    \/ note_push1
    \/ StartWalletMain
    \/ wallet_main
    \/ StartCounterMain
    \/ counter_main
    \/ PanicLoop
    \/ Commit
    \/ Discard

Spec == Init /\ [][Next]_vars

\* ------------------------------------------------------------ properties

Last(seq) == seq[Len(seq)]

RECURSIVE NotesAmount(_, _)
\* The amount of faucet f attached to the notes ns.
NotesAmount(ns, f) ==
    IF ns = <<>> THEN 0 ELSE ns[1].assets[f] + NotesAmount(Tail(ns), f)

Called(op) == \E i \in DOMAIN calls : calls[i][1] = op

HasEntry == script = "tx" /\ arg \in DOMAIN advice
Authentic == HasEntry /\ Hash(advice[arg]) = arg
Tampered == HasEntry /\ Hash(advice[arg]) # arg

\* C1 Integrity: when the elements stored under the digest given to run do
\* not hash to that digest, the execution never gets past the preimage load:
\* an entry of aligned length aborts at the load, nothing is decoded, neither
\* create_note nor move_asset_to_note is called, no note exists and the vault
\* is the vault before the execution; whenever a call has been made, the
\* loaded elements hash to the digest.
C1_Integrity ==
    /\ Tampered =>
          /\ pc \in {"mapvaln", "align", "load", "aborted"}
          /\ loc.input = <<>>
          /\ calls = <<>>
          /\ notes = <<>>
          /\ vault = vault0
          /\ pc = "aborted" =>
                failedAt = IF Len(advice[arg]) % 4 = 0 THEN "load" ELSE "align"
    /\ (script = "tx" /\ calls # <<>>) =>
          /\ Hash(loc.input) = arg
          /\ loc.input = advice[arg]

\* A stored preimage with one element altered, the digest kept: aborted at the load.
C1_Witness ==
    /\ Tampered
    /\ Len(advice[arg]) = 12
    /\ \E i \in 1 .. 12 :
          /\ advice[arg][i] # Encode(params.config, params.recipient, params.asset)[i]
          /\ \A j \in (1 .. 12) \ {i} :
                advice[arg][j] = Encode(params.config, params.recipient, params.asset)[j]
    /\ arg = Hash(Encode(params.config, params.recipient, params.asset))
    /\ pc = "aborted"
    /\ failedAt = "load"

\* C2 Round trip: when send_asset_to_account encodes P and stores it under
\* Hash(encode(P)), every create_note call of the guest carries the tag, aux,
\* note type code, execution hint code and recipient of P, and every
\* move_asset_to_note call carries the asset word of P.
C2_RoundTrip ==
    (script = "tx" /\ honest) =>
        /\ \A i \in DOMAIN calls :
              /\ calls[i][1] = "create_note" =>
                    calls[i] = <<"create_note", params.config.tag, params.config.aux,
                                 NoteTypeCode(params.config.note_type),
                                 ExecutionHintCode(params.config.execution_hint),
                                 params.recipient>>
              /\ calls[i][1] = "move_asset_to_note" =>
                    /\ calls[i][2] = <<params.asset.amount, 0, 0, params.asset.faucet>>
                    /\ calls[i][3] = 0
        /\ pc \in {"asset", "move_asset_to_note"} => Called("create_note")
        /\ pc \in {"remove_asset", "add_asset_to_note", "done"} =>
              Called("move_asset_to_note")

\* An honest transaction whose script has called create_note and move_asset_to_note.
C2_Witness ==
    /\ script = "tx" /\ honest
    /\ Called("create_note")
    /\ Called("move_asset_to_note")
    /\ params.config.tag # params.config.aux

\* C3 Alignment: an advice entry whose length is not a multiple of 4 stops
\* run at the alignment assertion: the load is not reached, nothing is
\* decoded, no note is created and the vault is unchanged.
C3_Alignment ==
    (HasEntry /\ Len(advice[arg]) % 4 # 0) =>
        /\ pc \in {"mapvaln", "align", "aborted"}
        /\ pc = "aborted" => failedAt = "align"
        /\ loc.input = <<>>
        /\ calls = <<>>
        /\ notes = <<>>
        /\ vault = vault0

\* An authentic entry of misaligned length, aborted at the assertion.
C3_Witness ==
    /\ Authentic
    /\ Len(advice[arg]) % 4 # 0
    /\ pc = "aborted"
    /\ failedAt = "align"

\* C4 Conservation: in an execution that only moves assets out (no
\* receive_asset), outside the two lines of move_asset_to_note, the amount of
\* every faucet in the vault plus the amount attached to the execution's
\* notes equals the vault's amount at the start of the execution.
C4_Conservation ==
    (script \in {"tx", "wallet_calls"} /\ ~Called("receive_asset")
        /\ pc # "add_asset_to_note") =>
        \A f \in Faucets : vault[f] + NotesAmount(notes, f) = vault0[f]

\* Two completed moves in one execution.
C4_Witness ==
    /\ script = "wallet_calls"
    /\ ~Called("receive_asset")
    /\ pc = "done"
    /\ Cardinality({i \in DOMAIN calls : calls[i][1] = "add_asset_to_note"}) >= 2
    /\ \E f \in Faucets : NotesAmount(notes, f) >= 2

MismatchP2id ==
    /\ script = "p2id"
    /\ \/ 1 \in DOMAIN note.inputs /\ note.inputs[1] # account_id[1]
       \/ 2 \in DOMAIN note.inputs /\ note.inputs[2] # account_id[2]

\* C5 Guard correctness: when note input 0 differs from the account id prefix
\* or note input 1 from the suffix, receive_asset is never called, the loop
\* over the assets is not reached, the vault equals the vault before the
\* execution, and with both inputs present the execution ends aborted at one
\* of the two assertions.
C5_GuardCorrectness ==
    MismatchP2id =>
        /\ calls = <<>>
        /\ vault = vault0
        /\ pc \in {"get_inputs", "assert_prefix", "assert_suffix", "aborted", "panic"}
        /\ pc = "aborted" => failedAt \in {"assert_prefix", "assert_suffix"}
        /\ Len(note.inputs) >= 2 => pc # "panic"
        /\ (Len(note.inputs) >= 2 /\ pc = "assert_suffix") =>
              note.inputs[2] # account_id[2]

\* Prefix equal, suffix different, assets attached: aborted at the suffix assertion.
C5_Witness ==
    /\ MismatchP2id
    /\ Len(note.inputs) >= 2
    /\ note.inputs[1] = account_id[1]
    /\ note.assets # <<>>
    /\ pc = "aborted"
    /\ failedAt = "assert_suffix"

HonestAndFunded ==
    /\ script = "tx" /\ honest
    /\ vault0[params.asset.faucet] >= params.asset.amount

TxStep ==
    \/ run_mapvaln \/ run_align \/ run_load \/ run_decode \/ run_recipient
    \/ run_create_note \/ run_asset \/ run_move_asset_to_note
    \/ move_asset_to_note_remove \/ move_asset_to_note_add

\* C6 End-to-end: for the transaction send_asset_to_account assembles, on an
\* account whose vault holds the asset A of P, run never fails and always has
\* a next step until it is done; when it is done there is exactly one note,
\* with the metadata and recipient of P and exactly A attached, and the vault
\* is the vault before with A's amount taken from A's faucet.
C6_EndToEnd ==
    HonestAndFunded =>
        /\ pc \notin {"aborted", "panic"}
        /\ pc # "done" => ENABLED TxStep
        /\ pc = "done" =>
              /\ notes = <<[tag |-> params.config.tag, aux |-> params.config.aux,
                            note_type |-> NoteTypeCode(params.config.note_type),
                            execution_hint |->
                                ExecutionHintCode(params.config.execution_hint),
                            recipient |-> params.recipient,
                            assets |-> [f \in Faucets |->
                                IF f = params.asset.faucet THEN params.asset.amount
                                ELSE 0]]>>
              /\ vault = [f \in Faucets |->
                            IF f = params.asset.faucet
                            THEN vault0[f] - params.asset.amount ELSE vault0[f]]

\* The honest transaction completed on a funded account.
C6_Witness == HonestAndFunded /\ pc = "done" /\ Len(notes) = 1

LacksAsset ==
    /\ Authentic
    /\ Len(advice[arg]) >= 12
    /\ IsFungibleAssetWord(SubSeq(advice[arg], 9, 12))
    /\ vault0[advice[arg][12]] < advice[arg][9]

\* C7 All-or-nothing: an aborted execution of the transaction script has no
\* output note and the vault of before the execution, whatever step failed;
\* when the vault lacks the asset the execution never completes.
C7_AllOrNothing ==
    /\ (script = "tx" /\ pc = "aborted") => (notes = <<>> /\ vault = vault0)
    /\ LacksAsset => pc # "done"

\* remove_asset failed after create_note had returned a note index.
C7_Witness ==
    /\ LacksAsset
    /\ pc = "aborted"
    /\ failedAt = "remove_asset"
    /\ Len(calls) = 3
    /\ calls[1][1] = "create_note"
    /\ loc.note_idx = 0

MoveReturned ==
    /\ calls # <<>>
    /\ Last(calls)[1] \in {"move_asset_to_note", "remove_asset", "add_asset_to_note"}
    /\ pc \notin {"remove_asset", "add_asset_to_note", "aborted"}

MoveAborted ==
    /\ pc = "aborted"
    /\ failedAt \in {"remove_asset", "add_asset_to_note"}

MoveCompleted ==
    /\ vault = [loc.vault_at_call EXCEPT ![loc.asset[4]] = @ - loc.asset[1]]
    /\ notes = [loc.notes_at_call EXCEPT
                   ![loc.note_idx + 1].assets[loc.asset[4]] = @ + loc.asset[1]]

\* C8 as stated: move_asset_to_note either completes with the asset removed
\* from the vault and attached to the note, or aborts with the vault as it
\* was before the call.
C8_AtomicSinceCall ==
    /\ MoveReturned => MoveCompleted
    /\ MoveAborted => vault = loc.vault_at_call

\* C8 amended: move_asset_to_note either completes with the asset removed
\* from the vault and attached to the note, or aborts, and the abort leaves no
\* note and the vault as it was before the execution; in run, where the call
\* is the only one that touches the vault, that is the vault before the call.
C8_AtomicSinceExecution ==
    /\ MoveReturned => MoveCompleted
    /\ MoveAborted => (vault = vault0 /\ notes = <<>>)
    /\ (MoveAborted /\ script = "tx") => vault = loc.vault_at_call

\* add_asset_to_note failed after remove_asset had taken the asset out.
C8_Witness ==
    /\ MoveAborted
    /\ failedAt = "add_asset_to_note"
    /\ Len(calls) >= 3
    /\ calls[Len(calls) - 1] = <<"remove_asset", loc.asset>>
    /\ vault0[loc.asset[4]] >= loc.asset[1]

BadEnum ==
    /\ Authentic
    /\ Len(advice[arg]) = 12
    /\ \/ advice[arg][3] \notin RecognizedNoteTypeCodes
       \/ advice[arg][4] \notin RecognizedExecutionHintCodes

\* C9 Enum decode: for an authentic 12-element preimage whose note_type or
\* execution_hint element is outside the recognized codes, the decoder of run
\* aborts the execution: create_note is not reached, no note is created and
\* no asset is moved.
C9_DecoderRejects ==
    BadEnum =>
        /\ pc \in {"mapvaln", "align", "load", "decode", "recipient", "aborted"}
        /\ pc = "aborted" => failedAt \in {"decode", "recipient"}
        /\ calls = <<>>
        /\ notes = <<>>
        /\ vault = vault0

\* C10 Counter increment: increment_count writes (v + 1) mod p at the counter
\* key and returns it, leaves the other keys alone, and the get_count after
\* it returns the same value; from v = p - 1 the value is 0; the counter note
\* never aborts.
C10_CounterIncrement ==
    /\ (script = "counter_note" /\ pc \in {"expected_value", "final_value",
                                           "assert_final", "done"}) =>
          /\ loc.initial_value = StorageMapGet(count_map0, CounterKey)
          /\ loc.new_value = (loc.initial_value + 1) % Modulus
          /\ CounterKey \in DOMAIN count_map
          /\ count_map[CounterKey] = (loc.initial_value + 1) % Modulus
          /\ \A k \in DOMAIN count_map \ {CounterKey} :
                k \in DOMAIN count_map0 /\ count_map[k] = count_map0[k]
          /\ Last(calls) = <<"increment_count", loc.new_value>>
                \/ Last(calls) = <<"get_count", loc.new_value>>
    /\ (script = "counter_note" /\ pc \in {"assert_final", "done"}) =>
          loc.final_value = (loc.initial_value + 1) % Modulus
    /\ script = "counter_note" => pc # "aborted"
    /\ (script = "counter_calls" /\ calls # <<>>
          /\ Last(calls)[1] = "increment_count") =>
          /\ Last(calls)[2] \in Felt
          /\ get_count = Last(calls)[2]

\* The counter note completed from the stored value p - 1: the result is 0.
C10_Witness ==
    /\ script = "counter_note"
    /\ pc = "done"
    /\ loc.initial_value = Modulus - 1
    /\ loc.final_value = 0
    /\ count_map[CounterKey] = 0

\* The results of increment_count recorded in calls[1 .. n].
RECURSIVE Increments(_)
Increments(n) ==
    IF n = 0 THEN 0
    ELSE Increments(n - 1) + (IF calls[n][1] = "increment_count" THEN 1 ELSE 0)

\* The storage map after n increments of the counter key from count_map0.
RECURSIVE Incremented(_)
Incremented(n) ==
    IF n = 0 THEN count_map0
    ELSE StorageMapSet(Incremented(n - 1), CounterKey,
                       FeltAdd(StorageMapGet(Incremented(n - 1), CounterKey), 1))

\* C11 get_count is read-only: in a script that calls the counter's procedures,
\* the storage map is the initial map changed by the increments alone (a
\* get_count leaves it as it was), and two get_count calls with no
\* increment_count between them return the same value.
C11_GetCountReadOnly ==
    script \in {"counter_calls", "counter_note"} =>
       /\ pc # "aborted" => count_map = Incremented(Increments(Len(calls)))
       /\ \A i, j \in DOMAIN calls :
             (/\ i < j
              /\ calls[i][1] = "get_count"
              /\ calls[j][1] = "get_count"
              /\ \A k \in i .. j : calls[k][1] # "increment_count")
             => calls[i][2] = calls[j][2]

\* Two get_count calls in a row on a map that lacks the counter key, and two
\* in a row after an increment.
C11_Witness ==
    /\ script = "counter_calls"
    /\ Len(calls) >= 2
    /\ calls[Len(calls)][1] = "get_count"
    /\ calls[Len(calls) - 1][1] = "get_count"
    /\ count_map = count_map0
    /\ CounterKey \notin DOMAIN count_map

\* Alice's consumption of the minted note is committed.
AliceConsumed ==
    /\ host.main = "wallet" /\ pc = "idle"
    /\ host.step = "consume_mint" /\ host.result = "ok"

\* Bob's consumption of the note Alice's transaction script created is committed.
BobConsumed ==
    /\ host.main = "wallet" /\ pc = "idle"
    /\ host.step = "consume_bob" /\ host.result = "ok"

\* C12 Wallet workflow: after the faucet emitted the note built by
\* create_note_from_package and Alice consumed it, Alice's vault holds exactly
\* the minted amount; after her transaction script sent T and Bob consumed that
\* note, Alice's vault holds M - T and Bob's holds T.
C12_WalletWorkflow ==
    /\ AliceConsumed => vault0[host.faucet] = host.mint_amount
    /\ BobConsumed =>
          /\ vault0[host.faucet] = host.transfer_amount
          /\ host.alice[host.faucet] = host.mint_amount - host.transfer_amount

\* The counter account's consumption of the counter note is committed.
CounterNoteConsumed ==
    /\ host.main = "counter" /\ pc = "idle"
    /\ host.step = "consume" /\ host.result = "ok"

\* C13 Counter workflow: the counter account starts with 1 under the counter
\* key, the transaction that only emits the note built by
\* create_note_from_package leaves 1 there, and the transaction in which the
\* account consumes that note leaves exactly 2.
C13_CounterWorkflow ==
    /\ (host.main = "counter" /\ host.step \in {"emit", "consume"}
          /\ host.result = "none" /\ pc = "idle") =>
          StorageMapGet(count_map0, CounterKey) = 1
    /\ CounterNoteConsumed => StorageMapGet(count_map0, CounterKey) = 2

\* Both identity comparisons of the p2id note script succeed on this note.
ValidationPassed ==
    /\ Len(note.inputs) >= 2
    /\ note.inputs[1] = account_id[1]
    /\ note.inputs[2] = account_id[2]

\* C14 Guard ordering: in the p2id note script the loop over the assets, every
\* call of receive_asset and every state whose vault differs from the vault
\* before the execution come after both identity comparisons succeeded.
C14_GuardOrdering ==
    (/\ script = "p2id"
     /\ \/ pc \in {"for_asset", "add_asset", "done"}
        \/ Called("receive_asset")
        \/ vault # vault0)
    => /\ ValidationPassed
       /\ failedAt \notin {"get_inputs", "assert_prefix", "assert_suffix"}

\* receive_asset has been called and the vault has grown.
C14_Witness ==
    /\ script = "p2id"
    /\ Called("receive_asset")
    /\ \E f \in Faucets : vault[f] > vault0[f]
    /\ ValidationPassed

\* C15 Ordering inside move_asset_to_note: between its two lines the asset has
\* left the vault and is attached to no note, every add_asset_to_note follows
\* directly on the remove_asset of the same asset, and in no state do the vault
\* and the notes together hold more than the vault and the notes held at the call.
C15_RemoveBeforeAttach ==
    /\ pc = "add_asset_to_note" =>
          /\ Last(calls) = <<"remove_asset", loc.asset>>
          /\ loc.removed = loc.asset
          /\ vault = [loc.vault_at_call EXCEPT ![loc.asset[4]] = @ - loc.asset[1]]
          /\ notes = loc.notes_at_call
    /\ \A i \in DOMAIN calls :
          calls[i][1] = "add_asset_to_note" =>
             /\ i > 1
             /\ calls[i - 1] = <<"remove_asset", calls[i][2]>>
    /\ (pc \in {"remove_asset", "add_asset_to_note"}
          \/ (MoveReturned /\ pc # "panic")) =>
          \A f \in Faucets :
             vault[f] + NotesAmount(notes, f)
                <= loc.vault_at_call[f] + NotesAmount(loc.notes_at_call, f)

\* Between the two lines: the asset removed, the note still without it.
C15_Witness ==
    /\ pc = "add_asset_to_note"
    /\ loc.asset[1] > 0
    /\ vault[loc.asset[4]] < loc.vault_at_call[loc.asset[4]]
    /\ notes # <<>>
    /\ notes = loc.notes_at_call

\* The last call is a remove_asset of a fungible asset the vault did not hold
\* in that amount when move_asset_to_note was called.
RemoveInsufficient ==
    /\ calls # <<>>
    /\ Last(calls)[1] = "remove_asset"
    /\ IsFungibleAssetWord(Last(calls)[2])
    /\ loc.vault_at_call[Last(calls)[2][4]] < Last(calls)[2][1]

\* C16 Insufficient asset: when the vault lacks the asset or holds less of it
\* than asked, remove_asset aborts and with it move_asset_to_note and the
\* script that called it, so the second line of move_asset_to_note is reached
\* only with the amount covered; no vault amount is ever negative.
C16_InsufficientAsset ==
    /\ RemoveInsufficient =>
          /\ pc = "aborted"
          /\ failedAt = "remove_asset"
          /\ vault = vault0
          /\ notes = <<>>
    /\ pc = "add_asset_to_note" =>
          loc.vault_at_call[loc.asset[4]] >= loc.asset[1]
    /\ \A f \in Faucets : vault[f] >= 0 /\ vault0[f] >= 0

\* run aborted in remove_asset: the vault holds the faucet's asset, but less
\* than the decoded amount.
C16_Witness ==
    /\ script = "tx"
    /\ RemoveInsufficient
    /\ loc.vault_at_call[loc.asset[4]] > 0
    /\ pc = "aborted"
    /\ failedAt = "remove_asset"

\* The calls of a loop that hands each of the assets to receive_asset once.
RECURSIVE ReceiveCalls(_)
ReceiveCalls(assets) ==
    IF assets = <<>> THEN <<>>
    ELSE <<<<"receive_asset", assets[1]>>, <<"add_asset", assets[1]>>>>
            \o ReceiveCalls(Tail(assets))

\* The amount of faucet f in a sequence of asset words.
RECURSIVE AssetsAmount(_, _)
AssetsAmount(assets, f) ==
    IF assets = <<>> THEN 0
    ELSE (IF assets[1][4] = f THEN assets[1][1] ELSE 0) + AssetsAmount(Tail(assets), f)

\* C17 P2ID completion: with both inputs equal to the account id, the script
\* calls receive_asset once for each asset of the note, in order, and for no
\* other asset; when it is done the vault is the vault before plus the note's
\* assets, each added to the amount the vault held of that faucet. The script
\* fails only where add_asset itself refuses an amount above the maximum.
C17_P2idCompletion ==
    (script = "p2id" /\ ValidationPassed) =>
       /\ pc = "done" =>
             /\ calls = ReceiveCalls(note.assets)
             /\ \A f \in Faucets :
                   vault[f] = vault0[f] + AssetsAmount(note.assets, f)
       /\ pc = "for_asset" =>
             /\ calls = ReceiveCalls(SubSeq(note.assets, 1, loc.i))
             /\ \A f \in Faucets :
                   vault[f] = vault0[f]
                                 + AssetsAmount(SubSeq(note.assets, 1, loc.i), f)
       /\ pc # "panic"
       /\ pc = "aborted" =>
             /\ failedAt = "add_asset"
             /\ vault0[loc.asset[4]] + loc.asset[1] > MaxAmount

\* A note with two assets consumed by an account that already held one of them.
C17_Witness ==
    /\ script = "p2id" /\ ValidationPassed
    /\ pc = "done"
    /\ Len(note.assets) = 2
    /\ Len(calls) = 4
    /\ \E f \in Faucets : vault0[f] > 0 /\ vault[f] > vault0[f]

\* The canonical digest of the parameters the honest host started from.
CanonicalDigest == Hash(Encode(params.config, params.recipient, params.asset))

\* C18 Public-argument convention: the host stores the encoding under the
\* canonical digest d and passes reverse(d); with the last-pushed-first-read
\* convention the Word run receives is d itself, so the length lookup finds
\* the entry (12 elements) and the hash check of the preimage load passes.
C18_ArgumentConvention ==
    (script = "tx" /\ honest) =>
       /\ arg = CanonicalDigest
       /\ arg # Reverse(CanonicalDigest)
       /\ DOMAIN advice = {CanonicalDigest}
       /\ advice[CanonicalDigest]
             = Encode(params.config, params.recipient, params.asset)
       /\ pc # "mapvaln" => loc.num_felts = 12
       /\ pc \notin {"mapvaln", "align", "load", "aborted"} =>
             Hash(loc.input) = CanonicalDigest
       /\ failedAt \notin {"mapvaln", "align", "load"}

\* The honest transaction got past the lookup and the preimage load.
C18_Witness ==
    /\ script = "tx" /\ honest
    /\ pc = "decode"
    /\ arg \in DOMAIN advice
    /\ Hash(loc.input) = arg

\* The advice map has no entry under the digest given to run.
AbsentEntry == script = "tx" /\ arg \notin DOMAIN advice

\* C19 Absent entry: when the advice map has no entry under the digest given
\* to run, the execution fails at the length lookup: it is never at the
\* alignment assertion, the preimage load or any later step, nothing is
\* loaded, no call is made, no note exists and the vault is unchanged.
C19_AbsentEntry ==
    AbsentEntry =>
       /\ pc \in {"mapvaln", "aborted"}
       /\ pc = "aborted" => failedAt = "mapvaln"
       /\ loc = NoLocals
       /\ calls = <<>>
       /\ notes = <<>>
       /\ vault = vault0

\* Aborted at the lookup, on an account whose vault holds assets.
C19_Witness ==
    /\ AbsentEntry
    /\ pc = "aborted"
    /\ failedAt = "mapvaln"
    /\ \E f \in Faucets : vault0[f] > 0

\* The guest scripts of the repository.
GuestScripts == {"tx", "p2id", "counter_note"}

\* C20 Halting: every execution of a guest script ends, completed or aborted:
\* a failure of any kind is an abort, and a script that has not ended has a
\* step that changes the state.
C20_Halting ==
    script \in GuestScripts =>
       /\ failedAt # "none" => pc = "aborted"
       /\ pc \notin {"done", "aborted"} => ENABLED <<Next>>_vars

\* The 12-element layout the guest's index constants describe, for the
\* sequence s: the four scalars, then the recipient, then the asset.
LaidOut(s, config, recipient_digest, asset) ==
    /\ Len(s) = 12
    /\ s[1 + 0] = config.tag
    /\ s[1 + 1] = config.aux
    /\ s[1 + 2] = NoteTypeCode(config.note_type)
    /\ s[1 + 3] = ExecutionHintCode(config.execution_hint)
    /\ SubSeq(s, 1 + 4, 8) = recipient_digest
    /\ SubSeq(s, 1 + 8, 12) = AssetWord(asset)

\* C21 Host encoding invariant: for every configuration, recipient and asset
\* the sequence send_asset_to_account builds has exactly 12 elements in the
\* order tag, aux, note_type, execution_hint, recipient, asset, so wherever the
\* host may submit, its alignment assertion passes; the entry the
\* transaction carries has that layout, and the guest's index constants are
\* the offsets 0, 1, 2, 3, 4..8, 8..12 of it.
C21_HostEncoding ==
    /\ (pc = "idle" /\ host.main = "none" /\ component = "basic_wallet") =>
          \A config \in Configs, r \in RecipientDigests, a \in FungibleAssets :
             /\ LaidOut(Encode(config, r, a), config, r, a)
             /\ Len(Encode(config, r, a)) % 4 = 0
             /\ ENABLED send_asset_to_account(config, r, a)
    /\ <<TAG_INDEX, AUX_INDEX, NOTE_TYPE_INDEX, EXECUTION_HINT_INDEX>>
          = <<1 + 0, 1 + 1, 1 + 2, 1 + 3>>
    /\ <<RECIPIENT_START, RECIPIENT_END, ASSET_START, ASSET_END>>
          = <<1 + 4, 8, 1 + 8, 12>>
    /\ (script = "tx" /\ honest) =>
          /\ DOMAIN advice = {arg}
          /\ LaidOut(advice[arg], params.config, params.recipient, params.asset)

\* The honest transaction with a non-zero aux, a private note and no hint.
C21_Witness ==
    /\ script = "tx" /\ honest
    /\ pc = "mapvaln"
    /\ params.config.aux # 0
    /\ params.config.note_type = "Private"
    /\ params.config.execution_hint = "None"
    /\ Len(advice[arg]) = 12

\* A step of the transaction script's execution, the failing ones and the
\* panic handler's included.
RunStep == script = "tx" /\ script' = "tx"

\* C22 Advice channel is read-only: no step of run, from the length lookup to
\* the end of the execution, completed, aborted or panicked, changes the
\* advice map or the digest run was given.
C22_AdviceReadOnly == [][RunStep => (advice' = advice /\ arg' = arg)]_vars

\* A completed execution that read a 16-element entry, the map still holding it.
C22_Witness ==
    /\ script = "tx"
    /\ pc = "done"
    /\ arg \in DOMAIN advice
    /\ Len(advice[arg]) = 16
    /\ loc.input = advice[arg]

\* The counter note's execution is committed by this step.
CounterNoteCommitted == script = "counter_note" /\ pc = "done" /\ pc' = "idle"

\* C23 The counter note's assertion holds for every content of the storage
\* map: at the assertion the final value equals the expected value, whether
\* the key was absent (read as 0) or held p - 1, so the note never aborts;
\* and each committed consumption takes the stored value v to (v + 1) mod p,
\* so n consumptions in a row take it to (v + n) mod p.
C23_CounterAssertion ==
    /\ [](script = "counter_note" =>
             /\ pc \in {"assert_final", "done"} =>
                   /\ loc.final_value = loc.expected_value
                   /\ loc.expected_value = (loc.initial_value + 1) % Modulus
                   /\ loc.initial_value = StorageMapGet(count_map0, CounterKey)
             /\ failedAt = "none"
             /\ pc \notin {"aborted", "panic"})
    /\ [][CounterNoteCommitted =>
             StorageMapGet(count_map0', CounterKey)
                = (StorageMapGet(count_map0, CounterKey) + 1) % Modulus]_vars

\* The note consumed by an account whose map lacks the counter key, after
\* which the map holds 1.
C23_Witness ==
    /\ script = "counter_note"
    /\ pc = "done"
    /\ CounterKey \notin DOMAIN count_map0
    /\ loc.initial_value = 0
    /\ loc.final_value = 1
    /\ count_map[CounterKey] = 1

\* An authentic entry of 0, 4 or 8 elements.
ShortAuthentic ==
    /\ Authentic
    /\ Len(advice[arg]) \in {0, 4, 8}

\* C24 Short authentic entries: an authentic entry of 0, 4 or 8 elements
\* passes the lookup, the alignment assertion and the load, and then run
\* fails on an out-of-range read: at the scalar reads for length 0, at the
\* recipient slice for length 4, at the asset slice, after create_note was
\* called, for length 8. It never completes, never calls move_asset_to_note,
\* its vault stays the vault of before the execution, and the note create_note
\* made for length 8 exists only inside the failed execution, which never
\* reaches the state a transaction is committed from.
C24_ShortEntries ==
    ShortAuthentic =>
       /\ pc \in {"mapvaln", "align", "load", "decode", "recipient", "create_note",
                  "asset", "aborted", "panic"}
       /\ ~ENABLED Commit
       /\ failedAt \in {"none", "create_note"}
              \cup {CASE Len(advice[arg]) = 0 -> "decode"
                      [] Len(advice[arg]) = 4 -> "recipient"
                      [] Len(advice[arg]) = 8 -> "asset"}
       /\ failedAt \in {"decode", "recipient", "asset"} => pc = "panic"
       /\ (failedAt = "asset") => Called("create_note")
       /\ (Len(advice[arg]) < 8) => (calls = <<>> /\ notes = <<>>)
       /\ ~Called("move_asset_to_note")
       /\ ~Called("remove_asset")
       /\ vault = vault0
       /\ pc = "aborted" => notes = <<>>

\* An 8-element authentic entry: failed at the asset slice after create_note.
C24_Witness ==
    /\ ShortAuthentic
    /\ Len(advice[arg]) = 8
    /\ failedAt = "asset"
    /\ Called("create_note")
    /\ vault = vault0

\* An authentic entry of aligned length above 12.
LongAuthentic ==
    /\ Authentic
    /\ Len(advice[arg]) % 4 = 0
    /\ Len(advice[arg]) > 12

\* The first 12 elements of the entry run was given.
First12 == SubSeq(advice[arg], 1, 12)

\* C25 Long authentic entries: an authentic entry of aligned length above 12
\* is accepted, never failing at the lookup, the alignment assertion, the load
\* or a read, and what run does with it is a function of its first 12
\* elements alone: the arguments of create_note and move_asset_to_note, the
\* note and the vault at completion are those of elements 0..11, so two such
\* entries that agree on them have the same effect.
C25_LongEntries ==
    LongAuthentic =>
       /\ failedAt \notin {"mapvaln", "align", "load", "decode", "recipient", "asset"}
       /\ pc # "panic"
       /\ \A i \in DOMAIN calls :
             /\ calls[i][1] = "create_note" =>
                   calls[i] = <<"create_note", First12[1], First12[2], First12[3],
                                First12[4], SubSeq(First12, 5, 8)>>
             /\ calls[i][1] = "move_asset_to_note" =>
                   calls[i] = <<"move_asset_to_note", SubSeq(First12, 9, 12), 0>>
       /\ pc = "done" =>
             /\ notes = <<[tag |-> First12[1], aux |-> First12[2],
                           note_type |-> First12[3], execution_hint |-> First12[4],
                           recipient |-> SubSeq(First12, 5, 8),
                           assets |-> [f \in Faucets |->
                               IF f = First12[12] THEN First12[9] ELSE 0]]>>
             /\ vault = [f \in Faucets |->
                           IF f = First12[12] THEN vault0[f] - First12[9]
                           ELSE vault0[f]]

\* A 16-element authentic entry, the second of the two tails: run completed
\* with one note and the asset moved.
C25_Witness ==
    /\ LongAuthentic
    /\ Len(advice[arg]) = 16
    /\ advice[arg][16] = 3
    /\ pc = "done"
    /\ Len(notes) = 1
    /\ First12[9] > 0
    /\ vault[First12[12]] = vault0[First12[12]] - First12[9]

\* A p2id note with fewer than two inputs.
ShortInputs == script = "p2id" /\ Len(note.inputs) < 2

\* C26 Short p2id inputs: a p2id note with fewer than two inputs fails on
\* reading inputs[0] or inputs[1]: the comparisons and the loop over the
\* assets are never reached, receive_asset is not called, the execution never
\* completes and the vault is the vault before the execution.
C26_ShortInputs ==
    ShortInputs =>
       /\ pc \in {"get_inputs", "panic"}
       /\ pc = "panic" => failedAt = "get_inputs"
       /\ calls = <<>>
       /\ vault = vault0
       /\ ~ENABLED Commit
       /\ ~ENABLED p2id_for_asset

\* A note with one input, equal to the account id prefix, and assets attached:
\* failed at the read of the inputs.
C26_Witness ==
    /\ ShortInputs
    /\ note.inputs = <<account_id[1]>>
    /\ note.assets # <<>>
    /\ pc = "panic"
    /\ failedAt = "get_inputs"

====
